---- MODULE Spec2Model ----
(***************************************************************************)
(* Character-level HMM spelling corrector (src/spelling_fixer.py):         *)
(* training of the start / transition / emission tables from an aspell     *)
(* style corpus, Viterbi decoding in log space, and sentence correction.   *)
(*                                                                         *)
(* Numbers.  The program computes in IEEE doubles.  The model computes the *)
(* same quantities exactly: a probability is a fraction n/d of integers    *)
(* (0.01 is 1/100), and a log-space score is the formal sum                *)
(*      z * LOG_ZERO + ln(product of n) - ln(product of d)                 *)
(* kept as the count z of LOG_ZERO terms and two bags of integer factors.  *)
(* Scores are compared exactly (cross multiplication on arbitrary          *)
(* precision naturals).  Rounding of the doubles is not modelled.          *)
(***************************************************************************)
EXTENDS Integers, Sequences, FiniteSets, Bags, TLC

(***************************************************************************)
(* Bounds of the model.                                                    *)
(***************************************************************************)
MaxLines == 2

(***************************************************************************)
(* Characters and strings.  A string is a sequence of 1-character strings. *)
(***************************************************************************)
alphabet ==
  << "a", "b", "c", "d", "e", "f", "g", "h", "i", "j", "k", "l", "m",
     "n", "o", "p", "q", "r", "s", "t", "u", "v", "w", "x", "y", "z", "'" >>

Alphabet == { alphabet[i] : i \in 1..Len(alphabet) }

\* alphabet.index(c)
Index(c) == CHOOSE i \in 1..Len(alphabet) : alphabet[i] = c

V == Len(alphabet)

UpperCase ==
  << "A", "B", "C", "D", "E", "F", "G", "H", "I", "J", "K", "L", "M",
     "N", "O", "P", "Q", "R", "S", "T", "U", "V", "W", "X", "Y", "Z" >>

Whitespace == { " ", "\t", "\n" }

None == "None"

\* str.lower() on one character (ASCII letters; every other modelled
\* character is its own lower case)
LowerChar(c) ==
  IF \E i \in 1..Len(UpperCase) : UpperCase[i] = c
  THEN alphabet[CHOOSE i \in 1..Len(UpperCase) : UpperCase[i] = c]
  ELSE c

AsWritten(s) == s

\* str.lower()
lower(s) == [i \in 1..Len(s) |-> LowerChar(s[i])]

InAlphabet(c) == c \in Alphabet

\* [c for c in s if c in alphabet]
FilterAlphabet(s) == SelectSeq(s, InAlphabet)

RECURSIVE lstrip(_)
lstrip(s) ==
  IF s # <<>> /\ Head(s) \in Whitespace THEN lstrip(Tail(s)) ELSE s

RECURSIVE rstrip(_)
rstrip(s) ==
  IF s # <<>> /\ s[Len(s)] \in Whitespace
  THEN rstrip(SubSeq(s, 1, Len(s) - 1)) ELSE s

strip(s) == rstrip(lstrip(s))

\* str.split(): split on runs of whitespace, no empty tokens
RECURSIVE SplitFrom(_, _, _)
SplitFrom(s, cur, acc) ==
  IF s = <<>> THEN (IF cur = <<>> THEN acc ELSE Append(acc, cur))
  ELSE IF Head(s) \in Whitespace
       THEN SplitFrom(Tail(s), <<>>, IF cur = <<>> THEN acc ELSE Append(acc, cur))
       ELSE SplitFrom(Tail(s), Append(cur, Head(s)), acc)

split(s) == SplitFrom(s, <<>>, <<>>)

RECURSIVE JoinNoSeparator(_)
JoinNoSeparator(tokens) ==
  IF tokens = <<>> THEN <<>> ELSE tokens[1] \o JoinNoSeparator(Tail(tokens))

\* ' '.join(tokens)
RECURSIVE join(_)
join(tokens) ==
  IF tokens = <<>> THEN <<>>
  ELSE IF Len(tokens) = 1 THEN tokens[1]
  ELSE tokens[1] \o <<" ">> \o join(Tail(tokens))

HasColon(s) == \E i \in 1..Len(s) : s[i] = ":"

FirstColon(s) == CHOOSE i \in 1..Len(s) : s[i] = ":" /\ \A j \in 1..(i - 1) : s[j] # ":"

\* line.split(':', 1)
SplitColon(s) ==
  << SubSeq(s, 1, FirstColon(s) - 1), SubSeq(s, FirstColon(s) + 1, Len(s)) >>

(***************************************************************************)
(* Arbitrary precision naturals: little-endian sequences of digits in base *)
(* Base, <<>> being 0.  Only used to compare products of table entries.    *)
(***************************************************************************)
Base == 100 * 100

RECURSIVE BigMulSmallC(_, _, _)
BigMulSmallC(a, k, c) ==
  IF a = <<>> THEN (IF c = 0 THEN <<>> ELSE <<c>>)
  ELSE LET v == Head(a) * k + c
       IN  <<v % Base>> \o BigMulSmallC(Tail(a), k, v \div Base)

\* a * k for a natural k < 200000
BigMulSmall(a, k) == IF k = 0 THEN <<>> ELSE BigMulSmallC(a, k, 0)

RECURSIVE BigCmpFrom(_, _, _)
BigCmpFrom(a, b, i) ==
  IF i = 0 THEN 0
  ELSE IF a[i] > b[i] THEN 1
  ELSE IF a[i] < b[i] THEN -1
  ELSE BigCmpFrom(a, b, i - 1)

BigGreater(a, b) ==
  IF Len(a) # Len(b) THEN Len(a) > Len(b) ELSE BigCmpFrom(a, b, Len(a)) = 1

\* the product of the elements of a bag of naturals
RECURSIVE BagProduct(_)
BagProduct(B) ==
  IF DOMAIN B = {} THEN <<1>>
  ELSE LET v == CHOOSE x \in DOMAIN B : TRUE
       IN  BigMulSmall(BagProduct(B (-) SetToBag({v})), v)

\* product(L) > product(R), common factors cancelled first
ProductGreater(L, R) == BigGreater(BagProduct(L (-) R), BagProduct(R (-) L))

(***************************************************************************)
(* Probabilities and log-space scores.                                     *)
(***************************************************************************)
\* smoothing = 0.01 = SmoothingNum / SmoothingDen
SmoothingNum == 1
SmoothingDen == 100

\* the boost added to the diagonal emission counts
DiagonalBoost == 5

Unsmoothed(count, row_count) ==
  [ n |-> count * SmoothingDen,
    d |-> row_count * SmoothingDen + V * SmoothingNum ]

\* (count + smoothing) / (row_count + V * smoothing), as an exact fraction
Smoothed(count, row_count) ==
  [ n |-> count * SmoothingDen + SmoothingNum,
    d |-> row_count * SmoothingDen + V * SmoothingNum ]

\* LOG_ZERO = -1e9: one LOG_ZERO term and no logarithm.  A score with fewer
\* LOG_ZERO terms is the greater one as long as the logarithm parts differ
\* by less than 1e9, which holds for every product of the few factors below
\* 200000 that a run of the model builds.
LOG_ZERO == [ z |-> 1, n |-> EmptyBag, d |-> EmptyBag ]

\* safe_log(x) for a fraction x
safe_log(x) ==
  IF x.n <= 0 THEN LOG_ZERO
  ELSE [ z |-> 0, n |-> SetToBag({x.n}), d |-> SetToBag({x.d}) ]

\* a + b on log-space scores
LogAdd(a, b) == [ z |-> a.z + b.z, n |-> a.n (+) b.n, d |-> a.d (+) b.d ]

\* a > b on log-space scores
LogGreater(a, b) ==
  IF a.z # b.z THEN a.z < b.z
  ELSE ProductGreater(a.n (+) b.d, b.n (+) a.d)

(***************************************************************************)
(* Inputs: the lines a corpus file is made of, and the corpus files.       *)
(***************************************************************************)
LineThe == << "t","h","e",":"," ","t","e","h"," ","h","t","e","\n" >>

LineReceive ==
  << "r","e","c","e","i","v","e",":"," ","r","e","c","i","e","v","e","\n" >>

\* upper case, a typo of another length, a typo with a digit
LineAc == << " ","A","C",":"," ","a"," ","1","\n" >>

\* a typo longer than the correct word
LineBc == << "b","c",":","b","c","b","\n" >>

\* a correct word without any alphabet symbol
LineDigits == << "1","2",":"," ","a","b","\n" >>

\* no colon
LineNoColon == << "a","b"," ","b","a","\n" >>

Lines == { LineThe, LineReceive, LineAc, LineBc, LineDigits, LineNoColon }

RECURSIVE SeqsUpTo(_, _)
SeqsUpTo(S, k) ==
  IF k = 0 THEN { <<>> }
  ELSE LET shorter == SeqsUpTo(S, k - 1)
       IN  shorter \cup { Append(q, x) : q \in { r \in shorter : Len(r) = k - 1 }, x \in S }

Files == SeqsUpTo(Lines, MaxLines)

ZeroCounts == [ c \in Alphabet |-> [ t \in Alphabet |-> 0 ] ]

ZeroCounter == [ c \in Alphabet |-> 0 ]

VARIABLES
  pc,                 \* where the program is
  exists,             \* os.path.exists(filename)
  file,               \* the corpus file: a sequence of lines
  line_no,            \* the next line of the file to read
  correct_letters,    \* the filtered correct word of the current line
  typos,              \* the typos of the current line still to process
  emission_counts,    \* emission_counts[correct][typed]
  transition_counts,  \* transition_counts[curr][next]
  start_counts,       \* start_counts[letter]
  hmm,                \* the trained model, or None
  learned,            \* history: the bag of corpus entries that were counted
  caller,             \* which function the environment called last
  text,               \* correct_sentence: its argument
  words,              \* correct_sentence: the tokens of the text
  word_no,            \* correct_sentence: the next token to correct
  corrected,          \* correct_sentence: the corrected tokens so far
  output,             \* what correct_sentence returned
  observations,       \* viterbi: its argument
  O,                  \* viterbi: the filtered observations
  M,                  \* viterbi: M[time + 1][state], the score table
  Backpointers,       \* viterbi: Backpointers[time + 1][state]
  time,               \* viterbi: the time step of the recursion
  result,             \* what viterbi returned
  error               \* the exception that ended the program, or None

train_vars ==
  << exists, file, line_no, correct_letters, typos,
     emission_counts, transition_counts, start_counts, hmm, learned >>

sentence_vars == << text, words, word_no, corrected, output >>

viterbi_vars == << observations, O, M, Backpointers, time, result >>

vars == << pc, train_vars, caller, sentence_vars, viterbi_vars, error >>

Init ==
  /\ pc = "open"
  /\ exists \in BOOLEAN
  /\ file \in (IF exists THEN Files ELSE { <<>> })
  /\ line_no = 1
  /\ correct_letters = <<>>
  /\ typos = <<>>
  /\ emission_counts = ZeroCounts
  /\ transition_counts = ZeroCounts
  /\ start_counts = ZeroCounter
  /\ hmm = None
  /\ learned = EmptyBag
  /\ caller = None
  /\ text = <<>>
  /\ words = <<>>
  /\ word_no = 1
  /\ corrected = <<>>
  /\ output = None
  /\ observations = <<>>
  /\ O = <<>>
  /\ M = <<>>
  /\ Backpointers = <<>>
  /\ time = 0
  /\ result = None
  /\ error = None

(***************************************************************************)
(* build_hmm_from_aspell                                                   *)
(***************************************************************************)
Incr(counts, c, t) == [ counts EXCEPT ![c][t] = @ + 1 ]

\* for i in range(len(correct_letters)):
\*     emission_counts[correct_letters[i]][typo_letters[i]] += 1
RECURSIVE CountAligned(_, _, _, _)
CountAligned(counts, correct, typed, i) ==
  IF i > Len(correct) THEN counts
  ELSE CountAligned(Incr(counts, correct[i], typed[i]), correct, typed, i + 1)

CountNoPairs(counts, correct, i) == counts

\* for i in range(len(correct_letters) - 1):
\*     transition_counts[correct_letters[i]][correct_letters[i + 1]] += 1
RECURSIVE CountPairs(_, _, _)
CountPairs(counts, correct, i) ==
  IF i > Len(correct) - 1 THEN counts
  ELSE CountPairs(Incr(counts, correct[i], correct[i + 1]), correct, i + 1)

\* sum(counter.values())
RECURSIVE SumFrom(_, _)
SumFrom(row, i) ==
  IF i > Len(alphabet) THEN 0 ELSE row[alphabet[i]] + SumFrom(row, i + 1)

RowSum(row) == SumFrom(row, 1)

\* a corpus line as the entry it is counted as: the filtered correct word
\* and the typos as written
Entry(raw) ==
  LET parts == SplitColon(lower(strip(raw)))
  IN  [ correct |-> FilterAlphabet(strip(parts[1])),
        typos |-> split(strip(parts[2])) ]

AtMostLength(correct, typed) == Len(correct) <= Len(typed)

\* if len(correct_letters) == len(typo_letters)
SameLength(correct, typed) == Len(correct) = Len(typed)

OpenFile ==
  /\ pc = "open"
  /\ IF ~exists
     THEN pc' = "exit"          \* returns None; main returns
     ELSE pc' = "read"
  /\ UNCHANGED << train_vars, caller, sentence_vars, viterbi_vars, error >>

\* one turn of "for line in f" up to the typo loop
ReadLine ==
  /\ pc = "read"
  /\ line_no <= Len(file)
  /\ LET line == lower(strip(file[line_no]))
     IN  IF line = <<>> \/ ~HasColon(line)
         THEN /\ line_no' = line_no + 1
              /\ UNCHANGED << pc, correct_letters, typos >>
         ELSE LET parts == SplitColon(line)
                  correct_word == strip(parts[1])
                  letters == FilterAlphabet(correct_word)
              IN  IF Len(letters) = 0
                  THEN /\ line_no' = line_no + 1
                       /\ correct_letters' = letters
                       /\ typos' = split(strip(parts[2]))
                       /\ UNCHANGED pc
                  ELSE /\ correct_letters' = letters
                       /\ typos' = split(strip(parts[2]))
                       /\ pc' = "typos"
                       /\ UNCHANGED line_no
  /\ UNCHANGED << exists, file, emission_counts, transition_counts, start_counts, hmm, learned >>
  /\ UNCHANGED << caller, sentence_vars, viterbi_vars, error >>

\* one turn of "for typo in typos"
LearnTypo ==
  /\ pc = "typos"
  /\ typos # <<>>
  /\ LET typo_letters == FilterAlphabet(Head(typos))
     IN  emission_counts' =
           IF SameLength(correct_letters, typo_letters)
           THEN CountAligned(emission_counts, correct_letters, typo_letters, 1)
           ELSE emission_counts
  /\ typos' = Tail(typos)
  /\ UNCHANGED << pc, exists, file, line_no, correct_letters, transition_counts, start_counts, hmm, learned >>
  /\ UNCHANGED << caller, sentence_vars, viterbi_vars, error >>

\* after the typo loop: start and transition counts of the correct word
LearnTransitions ==
  /\ pc = "typos"
  /\ typos = <<>>
  /\ start_counts' = [ start_counts EXCEPT ![correct_letters[1]] = @ + 1 ]
  /\ transition_counts' = CountPairs(transition_counts, correct_letters, 1)
  /\ line_no' = line_no + 1
  /\ learned' = learned (+) SetToBag({ Entry(file[line_no]) })
  /\ pc' = "read"
  /\ UNCHANGED << exists, file, correct_letters, typos, emission_counts, hmm >>
  /\ UNCHANGED << caller, sentence_vars, viterbi_vars, error >>

EmissionTable(counts) ==
  [ correct \in Alphabet |->
      LET total == RowSum(counts[correct])
      IN  [ typed \in Alphabet |->
              Smoothed(counts[correct][typed]
                         + (IF correct = typed THEN DiagonalBoost ELSE 0),
                       total) ] ]

TransitionTable(counts) ==
  [ curr \in Alphabet |->
      LET total == RowSum(counts[curr])
      IN  [ next_char \in Alphabet |-> Smoothed(counts[curr][next_char], total) ] ]

StartTable(counts) ==
  LET total_start == RowSum(counts)
  IN  [ letter \in Alphabet |-> Smoothed(counts[letter], total_start) ]

\* end of file: convert the counts to probabilities and return the model;
\* the file is closed and the locals of the loop are gone
BuildTables ==
  /\ pc = "read"
  /\ line_no > Len(file)
  /\ hmm' = [ E |-> EmissionTable(emission_counts),
              T |-> TransitionTable(transition_counts),
              start |-> StartTable(start_counts) ]
  /\ file' = <<>>
  /\ line_no' = 1
  /\ correct_letters' = <<>>
  /\ typos' = <<>>
  /\ pc' = "ready"
  /\ UNCHANGED << exists, emission_counts, transition_counts, start_counts, learned >>
  /\ UNCHANGED << caller, sentence_vars, viterbi_vars, error >>

(***************************************************************************)
(* Inputs of the decoding functions.                                       *)
(***************************************************************************)
WordTeh == << "t","e","h" >>

WordAb == << "A","b" >>

WordB1 == << "B","1" >>

WordDigits == << "1","2" >>

Words == { WordTeh, WordAb, WordB1, WordDigits, <<>> }

TextThree == << "A","b"," ","\t","1","2"," ","a" >>

TextBlank == << " ","\n" >>

Texts == { TextThree, TextBlank }

(***************************************************************************)
(* viterbi                                                                 *)
(***************************************************************************)
ImprovesOrTies(val, max_val) == ~LogGreater(max_val, val)

\* val > max_val, the test that replaces the running maximum
Improves(val, max_val) == LogGreater(val, max_val)

\* M[0][state] = safe_log(start[state]) + safe_log(E[state][O[0]])
InitialScore(model, state, obs) ==
  LogAdd(safe_log(model.start[state]), safe_log(model.E[state][obs]))

StepScoreNoTransition(model, prev_score, prev_state, state, obs) ==
  LogAdd(prev_score, safe_log(model.E[state][obs]))

\* val = M[time-1][prev_state] + safe_log(T[prev_state][state])
\*                             + safe_log(E[state][O[time]])
StepScore(model, prev_score, prev_state, state, obs) ==
  LogAdd(LogAdd(prev_score, safe_log(model.T[prev_state][state])),
         safe_log(model.E[state][obs]))

\* the loop "for prev_state in alphabet" from the i-th symbol on, with the
\* running max_val and best_prev
RECURSIVE ScanPrev(_, _, _, _, _, _, _)
ScanPrev(model, prev_row, state, obs, i, max_val, best_prev) ==
  IF i > Len(alphabet) THEN [ val |-> max_val, prev |-> best_prev ]
  ELSE LET val == StepScore(model, prev_row[alphabet[i]], alphabet[i], state, obs)
       IN  IF Improves(val, max_val)
           THEN ScanPrev(model, prev_row, state, obs, i + 1, val, alphabet[i])
           ELSE ScanPrev(model, prev_row, state, obs, i + 1, max_val, best_prev)

\* max_val = LOG_ZERO; best_prev = None; for prev_state in alphabet: ...
BestPrev(model, prev_row, state, obs) ==
  ScanPrev(model, prev_row, state, obs, 1, LOG_ZERO, None)

\* one time step of the recursion: for every state the new score and the
\* backpointer
RECURSIVE RowFrom(_, _, _, _, _)
RowFrom(model, prev_row, obs, i, acc) ==
  IF i > Len(alphabet) THEN acc
  ELSE RowFrom(model, prev_row, obs, i + 1,
               Append(acc, BestPrev(model, prev_row, alphabet[i], obs)))

\* the loop "for state in alphabet": the i-th entry belongs to alphabet[i]
NextRow(model, prev_row, obs) == RowFrom(model, prev_row, obs, 1, <<>>)

\* max(M[t-1], key=M[t-1].get): the first key, in the order the keys were
\* inserted (the alphabet's), whose value no other exceeds
RECURSIVE ScanMax(_, _, _)
ScanMax(row, i, best) ==
  IF i > Len(alphabet) THEN best
  ELSE IF LogGreater(row[alphabet[i]], row[best])
       THEN ScanMax(row, i + 1, alphabet[i])
       ELSE ScanMax(row, i + 1, best)

ArgMax(row) == ScanMax(row, 2, alphabet[1])

\* the backtracking loop from time step t (0-based) down to 0; the path is
\* built in reverse.  A None reached before time 0 is used as a key of
\* Backpointers[time] and raises KeyError.
RECURSIVE Backtrack(_, _, _, _)
Backtrack(bp, t, best, path) ==
  IF t = 0 THEN [ path |-> Append(path, best), error |-> None ]
  ELSE IF best = None THEN [ path |-> Append(path, best), error |-> "KeyError" ]
  ELSE Backtrack(bp, t - 1, bp[t + 1][best], Append(path, best))

Reverse(q) == [ i \in 1..Len(q) |-> q[Len(q) + 1 - i] ]

EarlyReturnFiltered(word, filtered) == filtered

\* if len(O) == 0: return observations
EarlyReturn(word, filtered) == word

\* what viterbi hands back, to the environment or to correct_sentence
Return(value) ==
  /\ result' = value
  /\ IF caller = "correct_sentence"
     THEN /\ corrected' = Append(corrected, value)
          /\ pc' = "sentence"
     ELSE /\ corrected' = corrected
          /\ pc' = "ready"

\* what an earlier call left behind is not part of a new call
ForgetLastCall ==
  /\ corrected' = <<>>
  /\ output' = None
  /\ O' = <<>>
  /\ M' = <<>>
  /\ Backpointers' = <<>>
  /\ time' = 0
  /\ result' = None

\* the environment calls viterbi(observations, hmm)
CallViterbi ==
  /\ pc = "ready"
  /\ \E w \in Words : observations' = w
  /\ text' = <<>>
  /\ words' = <<>>
  /\ word_no' = 1
  /\ caller' = "viterbi"
  /\ pc' = "viterbi"
  /\ ForgetLastCall
  /\ UNCHANGED << train_vars, error >>

\* viterbi up to the end of the initialisation, or its early return
ViterbiStart ==
  /\ pc = "viterbi"
  /\ LET filtered == FilterAlphabet(lower(observations))
     IN  /\ O' = filtered
         /\ IF Len(filtered) = 0
            THEN /\ Return(EarlyReturn(observations, filtered))
                 /\ M' = <<>>
                 /\ Backpointers' = <<>>
                 /\ time' = 0
            ELSE /\ M' = << [ state \in Alphabet |-> InitialScore(hmm, state, filtered[1]) ] >>
                 /\ Backpointers' = << [ state \in Alphabet |-> None ] >>
                 /\ time' = 1
                 /\ pc' = "recursion"
                 /\ UNCHANGED << result, corrected >>
  /\ UNCHANGED << train_vars, caller, text, words, word_no, output, observations, error >>

\* one turn of "for time in range(1, t)"
ViterbiStep ==
  /\ pc = "recursion"
  /\ time < Len(O)
  /\ \E row \in { NextRow(hmm, M[time], O[time + 1]) } :
         /\ M' = Append(M, [ state \in Alphabet |-> row[Index(state)].val ])
         /\ Backpointers' =
              Append(Backpointers, [ state \in Alphabet |-> row[Index(state)].prev ])
  /\ time' = time + 1
  /\ UNCHANGED << pc, train_vars, caller, sentence_vars, observations, O, result, error >>

\* termination, backtracking and the return
ViterbiFinish ==
  /\ pc = "recursion"
  /\ time = Len(O)
  /\ LET back == Backtrack(Backpointers, Len(O) - 1, ArgMax(M[Len(O)]), <<>>)
     IN  IF back.error # None
         THEN /\ error' = back.error
              /\ pc' = "raised"
              /\ UNCHANGED << result, corrected >>
         ELSE IF \E i \in 1..Len(back.path) : back.path[i] = None
         THEN /\ error' = "TypeError"       \* ''.join of a list holding None
              /\ pc' = "raised"
              /\ UNCHANGED << result, corrected >>
         ELSE /\ Return(Reverse(back.path))
              /\ UNCHANGED error
  /\ UNCHANGED << train_vars, caller, text, words, word_no, output, observations, O, M, Backpointers, time >>

(***************************************************************************)
(* correct_sentence                                                        *)
(***************************************************************************)
\* the environment calls correct_sentence(text, hmm)
CallCorrectSentence ==
  /\ pc = "ready"
  /\ \E t \in Texts : text' = t
  /\ words' = split(text')
  /\ word_no' = 1
  /\ caller' = "correct_sentence"
  /\ pc' = "sentence"
  /\ observations' = <<>>
  /\ ForgetLastCall
  /\ UNCHANGED << train_vars, error >>

\* one turn of "for word in words": the call of viterbi
CorrectWord ==
  /\ pc = "sentence"
  /\ word_no <= Len(words)
  /\ observations' = words[word_no]
  /\ word_no' = word_no + 1
  /\ pc' = "viterbi"
  /\ UNCHANGED << train_vars, caller, text, words, corrected, output,
                  O, M, Backpointers, time, result, error >>

\* return ' '.join(corrected)
JoinCorrected ==
  /\ pc = "sentence"
  /\ word_no > Len(words)
  /\ output' = join(corrected)
  /\ pc' = "ready"
  /\ UNCHANGED << train_vars, caller, text, words, word_no, corrected, viterbi_vars, error >>

Next ==
  \/ OpenFile
  \/ ReadLine
  \/ LearnTypo
  \/ LearnTransitions
  \/ BuildTables
  \/ CallViterbi
  \/ ViterbiStart
  \/ ViterbiStep
  \/ ViterbiFinish
  \/ CallCorrectSentence
  \/ CorrectWord
  \/ JoinCorrected

Spec == Init /\ [][Next]_vars

(***************************************************************************)
(* viterbi and correct_sentence take the model as an argument.  SpecAny    *)
(* calls them with models that a caller has put together by hand: tables   *)
(* over the 27 symbols, some with probabilities that are 0.                *)
(***************************************************************************)
Fraction(a, b) == [ n |-> a, d |-> b ]

UniformRow == [ t \in Alphabet |-> Fraction(1, V) ]

\* every symbol equally likely everywhere
ModelUniform ==
  [ E |-> [ c \in Alphabet |-> UniformRow ],
    T |-> [ c \in Alphabet |-> UniformRow ],
    start |-> UniformRow ]

\* no symbol is ever typed as b or as h
ModelNeverTyped ==
  [ E |-> [ c \in Alphabet |->
              [ t \in Alphabet |->
                  IF t \in { "b", "h" } THEN Fraction(0, 1) ELSE Fraction(1, V - 2) ] ],
    T |-> [ c \in Alphabet |-> UniformRow ],
    start |-> UniformRow ]

\* every word starts with t
ModelStartsWithT ==
  [ E |-> [ c \in Alphabet |-> UniformRow ],
    T |-> [ c \in Alphabet |-> UniformRow ],
    start |-> [ c \in Alphabet |-> IF c = "t" THEN Fraction(1, 1) ELSE Fraction(0, 1) ] ]

\* no symbol is ever followed by e
ModelNeverBeforeE ==
  [ E |-> [ c \in Alphabet |-> UniformRow ],
    T |-> [ c \in Alphabet |->
              [ t \in Alphabet |->
                  IF t = "e" THEN Fraction(0, 1) ELSE Fraction(1, V - 1) ] ],
    start |-> UniformRow ]

HandModels == { ModelUniform, ModelNeverTyped, ModelStartsWithT, ModelNeverBeforeE }

InitAny ==
  /\ pc = "ready"
  /\ hmm \in HandModels
  /\ exists = TRUE
  /\ file = <<>>
  /\ line_no = 1
  /\ correct_letters = <<>>
  /\ typos = <<>>
  /\ emission_counts = ZeroCounts
  /\ transition_counts = ZeroCounts
  /\ start_counts = ZeroCounter
  /\ learned = EmptyBag
  /\ caller = None
  /\ text = <<>>
  /\ words = <<>>
  /\ word_no = 1
  /\ corrected = <<>>
  /\ output = None
  /\ observations = <<>>
  /\ O = <<>>
  /\ M = <<>>
  /\ Backpointers = <<>>
  /\ time = 0
  /\ result = None
  /\ error = None

NextAny ==
  \/ CallViterbi
  \/ ViterbiStart
  \/ ViterbiStep
  \/ ViterbiFinish
  \/ CallCorrectSentence
  \/ CorrectWord
  \/ JoinCorrected

SpecAny == InitAny /\ [][NextAny]_vars

(***************************************************************************)
(* viterbi as a function of its arguments: the value it returns, or the    *)
(* exception it raises.  The same steps as the actions above, composed.    *)
(***************************************************************************)
Scores(row) == [ state \in Alphabet |-> row[Index(state)].val ]

Prevs(row) == [ state \in Alphabet |-> row[Index(state)].prev ]

Outcome(back) ==
  IF back.error # None THEN [ value |-> <<>>, error |-> back.error ]
  ELSE IF \E i \in 1..Len(back.path) : back.path[i] = None
       THEN [ value |-> <<>>, error |-> "TypeError" ]
       ELSE [ value |-> Reverse(back.path), error |-> None ]

RECURSIVE DecodeFrom(_, _, _, _, _)
RECURSIVE DecodeRow(_, _, _, _, _)
DecodeFrom(model, obs, k, m_row, bp) ==
  IF k > Len(obs)
  THEN Outcome(Backtrack(bp, Len(obs) - 1, ArgMax(m_row), <<>>))
  ELSE DecodeRow(model, obs, k, NextRow(model, m_row, obs[k]), bp)

DecodeRow(model, obs, k, row, bp) ==
  DecodeFrom(model, obs, k + 1, Scores(row), Append(bp, Prevs(row)))

Decode(model, word) ==
  IF FilterAlphabet(lower(word)) = <<>>
  THEN [ value |-> EarlyReturn(word, <<>>), error |-> None ]
  ELSE DecodeFrom(model, FilterAlphabet(lower(word)), 2,
                  [ state \in Alphabet |->
                      InitialScore(model, state, FilterAlphabet(lower(word))[1]) ],
                  << [ state \in Alphabet |-> None ] >>)

\* a model has been built
Trained == pc \in { "ready", "viterbi", "recursion", "sentence", "raised" }

\* viterbi has just returned to the environment
ViterbiReturned == pc = "ready" /\ caller = "viterbi"

\* correct_sentence has just returned
SentenceReturned == pc = "ready" /\ caller = "correct_sentence"

\* the number of elements of a sequence that satisfy a membership test
CountIn(q, S) == Cardinality({ i \in 1..Len(q) : q[i] \in S })

(***************************************************************************)
(* Claims about training.                                                  *)
(***************************************************************************)
RECURSIVE NumeratorsFrom(_, _)
NumeratorsFrom(row, i) ==
  IF i > Len(alphabet) THEN 0 ELSE row[alphabet[i]].n + NumeratorsFrom(row, i + 1)

\* the fractions of a row add up to 1
SumsToOne(row) ==
  /\ \A c \in Alphabet : row[c].d = row[alphabet[1]].d
  /\ NumeratorsFrom(row, 1) = row[alphabet[1]].d

\* C2: after training every row of the emission table, every row of the
\* transition table and the start table add up to 1 over the 27 symbols.
C2_RowsAreDistributions ==
  Trained =>
    /\ \A c \in Alphabet : SumsToOne(hmm.E[c])
    /\ \A c \in Alphabet : SumsToOne(hmm.T[c])
    /\ SumsToOne(hmm.start)

\* the fraction p equals (boost + alpha) / (row_count + 27 * alpha), alpha = 1/100
EqualsSmoothedOf(p, boost, row_count) ==
  /\ p.n > 0
  /\ p.d > 0
  /\ p.n * (100 * row_count + 27) = (100 * boost + 1) * p.d

\* every zero-count entry of a row equals (boost + alpha) / (total + 27 * alpha),
\* the boost being diagonal_boost at the symbol diagonal and 0 elsewhere
ZeroCountsSmoothed(count_row, table_row, total, diagonal, diagonal_boost) ==
  \A t \in Alphabet :
    count_row[t] = 0 =>
      EqualsSmoothedOf(table_row[t], IF t = diagonal THEN diagonal_boost ELSE 0, total)

\* C3 as stated: every pair with a zero training count, in the emission,
\* transition and start tables alike, has the probability
\* alpha / (row total + 27 * alpha) > 0.
C3_ZeroCountsAtFloor ==
  Trained =>
    /\ \A c \in Alphabet :
          ZeroCountsSmoothed(emission_counts[c], hmm.E[c], RowSum(emission_counts[c]), c, 0)
    /\ \A c \in Alphabet :
          ZeroCountsSmoothed(transition_counts[c], hmm.T[c], RowSum(transition_counts[c]), c, 0)
    /\ ZeroCountsSmoothed(start_counts, hmm.start, RowSum(start_counts), None, 0)

\* C3 amended: the floor alpha / (row total + 27 * alpha) > 0 is the
\* probability of every zero-count pair of the transition and start tables
\* and of every zero-count pair of two different symbols of the emission
\* table; a zero-count emission pair (s, s) has the probability
\* (5 + alpha) / (row total + 27 * alpha).
C3_ZeroCountsAtFloorOffDiagonal ==
  Trained =>
    /\ \A c \in Alphabet :
          ZeroCountsSmoothed(emission_counts[c], hmm.E[c], RowSum(emission_counts[c]), c, 5)
    /\ \A c \in Alphabet :
          ZeroCountsSmoothed(transition_counts[c], hmm.T[c], RowSum(transition_counts[c]), c, 0)
    /\ ZeroCountsSmoothed(start_counts, hmm.start, RowSum(start_counts), None, 0)

\* a model trained on "the: teh hte": rows with counts and zero-count pairs
C3_Witness ==
  /\ pc = "ready"
  /\ emission_counts["t"]["t"] > 0
  /\ emission_counts["t"]["e"] = 0
  /\ emission_counts["h"]["h"] = 0
  /\ transition_counts["t"]["h"] > 0
  /\ transition_counts["t"]["e"] = 0
  /\ start_counts["t"] > 0
  /\ start_counts["e"] = 0
  /\ hmm.E["t"]["e"].n = 1
  /\ hmm.E["h"]["h"].n = 501

\* the start and transition counts that the correct words of a bag of corpus
\* entries give, whatever the typos of the entries are
RECURSIVE CorrectWordCounts(_)
CorrectWordCounts(entries) ==
  IF DOMAIN entries = {} THEN [ start |-> ZeroCounter, transition |-> ZeroCounts ]
  ELSE LET e == CHOOSE x \in DOMAIN entries : TRUE
           rest == CorrectWordCounts(entries (-) SetToBag({e}))
       IN  [ start |-> [ rest.start EXCEPT ![e.correct[1]] = @ + 1 ],
             transition |->
               [ c \in Alphabet |-> [ t \in Alphabet |->
                   rest.transition[c][t]
                     + Cardinality({ i \in 1..(Len(e.correct) - 1) :
                                       e.correct[i] = c /\ e.correct[i + 1] = t }) ] ] ]

\* C7: processing a misspelling changes no start count and no transition
\* count, and changes emission counts only when its filtered length equals
\* that of its correct word; so the start and transition tables are those
\* of the correct words alone.
C7_TyposOnlyTouchEmissions ==
  /\ [][ (pc = "typos" /\ typos # <<>>) =>
           /\ start_counts' = start_counts
           /\ transition_counts' = transition_counts
           /\ (Len(FilterAlphabet(Head(typos))) # Len(correct_letters)
                 => emission_counts' = emission_counts) ]_vars
  /\ [](pc = "ready" =>
          /\ hmm.start = StartTable(CorrectWordCounts(learned).start)
          /\ hmm.T = TransitionTable(CorrectWordCounts(learned).transition))

\* the second line is "AC: a 1": its typo "a", shorter than "ac", has been
\* processed and the counts of the first line are all there is
C7_Witness ==
  /\ pc = "typos"
  /\ line_no = 2
  /\ correct_letters = << "a", "c" >>
  /\ Len(typos) = 1
  /\ start_counts["t"] = 1
  /\ RowSum(emission_counts["a"]) = 0

(***************************************************************************)
(* Claims about decoding.                                                  *)
(***************************************************************************)
\* the last call of viterbi, from the environment or from correct_sentence,
\* has returned: observations is its argument and result what it returned
LastCallReturned ==
  \/ ViterbiReturned
  \/ caller = "correct_sentence" /\ pc \in { "sentence", "ready" } /\ corrected # <<>>

\* the word with every ASCII capital replaced by its small letter
LowerCased(word) == [ i \in 1..Len(word) |-> LowerChar(word[i]) ]

\* C4 as stated: for a word with at least one character of the alphabet,
\* viterbi returns as many symbols as the word has characters of the
\* alphabet.
C4_LengthIsAlphabetCount ==
  (LastCallReturned /\ CountIn(observations, Alphabet) >= 1) =>
    Len(result) = CountIn(observations, Alphabet)

\* C4 amended: for a word whose lower-cased form has at least one character
\* of the alphabet, viterbi returns as many symbols, all of the alphabet, as
\* the lower-cased word has characters of the alphabet: capitals are
\* lower-cased and kept, every other character is dropped.
C4_LengthIsLoweredAlphabetCount ==
  (LastCallReturned /\ CountIn(LowerCased(observations), Alphabet) >= 1) =>
    /\ Len(result) = CountIn(LowerCased(observations), Alphabet)
    /\ \A i \in 1..Len(result) : result[i] \in Alphabet

\* viterbi("Ab") has returned two symbols
C4_Witness ==
  /\ ViterbiReturned
  /\ observations = WordAb
  /\ Len(result) = 2

\* C5 as stated: for a word without any character of the alphabet viterbi
\* returns the word as given and builds no score table.
C5_NoAlphabetReturnsInput ==
  (LastCallReturned /\ CountIn(observations, Alphabet) = 0) =>
    /\ result = observations
    /\ M = <<>>
    /\ Backpointers = <<>>

\* C5 amended: for a word whose lower-cased form has no character of the
\* alphabet viterbi returns the word as given and builds no score table.
C5_NoLoweredAlphabetReturnsInput ==
  (LastCallReturned /\ CountIn(LowerCased(observations), Alphabet) = 0) =>
    /\ result = observations
    /\ M = <<>>
    /\ Backpointers = <<>>

\* viterbi("12") has returned "12"
C5_Witness ==
  /\ ViterbiReturned
  /\ observations = WordDigits
  /\ result = WordDigits
  /\ M = <<>>

\* C8: correct_sentence returns the results of viterbi on the tokens of the
\* text, in order, joined by exactly one space; as many tokens as the input
\* has; the empty string for a text without tokens.
C8_SentenceIsJoinedDecodes ==
  SentenceReturned =>
    /\ Len(split(output)) = Len(split(text))
    /\ \A i \in 1..Len(split(text)) :
          Decode(hmm, split(text)[i]) = [ value |-> split(output)[i], error |-> None ]
    /\ \A i \in 1..Len(output) :
          output[i] \in Whitespace =>
            /\ output[i] = " "
            /\ 1 < i /\ i < Len(output)
            /\ output[i + 1] \notin Whitespace
    /\ (split(text) = <<>> => output = <<>>)

\* correct_sentence("Ab \t12 a") has returned three tokens
C8_Witness ==
  /\ SentenceReturned
  /\ text = TextThree
  /\ Len(split(output)) = 3
  /\ split(output)[2] = WordDigits

\* the product start[s0]*E[s0][O0] * T[s0][s1]*E[s1][O1] * ... of a hidden
\* sequence, as the bags of its numerators and of its denominators
TimesFraction(product, x) ==
  [ n |-> product.n (+) SetToBag({x.n}), d |-> product.d (+) SetToBag({x.d}) ]

RECURSIVE PathScoreFrom(_, _, _, _, _)
PathScoreFrom(model, hidden, obs, i, product) ==
  IF i > Len(obs) THEN product
  ELSE PathScoreFrom(model, hidden, obs, i + 1,
         TimesFraction(TimesFraction(product, model.T[hidden[i - 1]][hidden[i]]),
                       model.E[hidden[i]][obs[i]]))

PathScore(model, hidden, obs) ==
  PathScoreFrom(model, hidden, obs, 2,
    TimesFraction(TimesFraction([ n |-> EmptyBag, d |-> EmptyBag ], model.start[hidden[1]]),
                  model.E[hidden[1]][obs[1]]))

\* a > b for two products of positive fractions
ScoreGreater(a, b) == ProductGreater(a.n (+) b.d, b.n (+) a.d)

CorpusTheReceive == SetToBag({ Entry(LineThe), Entry(LineReceive) })

\* C9: for the model trained on "the: teh hte" and "receive: recieve" the
\* hidden sequence t,h,e scores strictly higher than t,e,h on the
\* observation "teh", and viterbi("teh") does not return "teh".
C9_TehFavoursThe ==
  (Trained /\ learned = CorpusTheReceive) =>
    /\ ScoreGreater(PathScore(hmm, << "t","h","e" >>, WordTeh),
                    PathScore(hmm, << "t","e","h" >>, WordTeh))
    /\ (ViterbiReturned /\ observations = WordTeh => result # WordTeh)

C9_Witness ==
  /\ ViterbiReturned
  /\ learned = CorpusTheReceive
  /\ observations = WordTeh
  /\ result = << "t","h","e" >>

\* the i-th of the values v[1], ..., v[27] is a maximum and the first one
EarliestMaximum(v, i) ==
  /\ \A j \in 1..Len(alphabet) : ~LogGreater(v[j], v[i])
  /\ \A j \in 1..(i - 1) : LogGreater(v[i], v[j])

\* the candidates of the recursion for a state at row t of the tables
Candidates(t, state) ==
  [ j \in 1..Len(alphabet) |->
      StepScore(hmm, M[t - 1][alphabet[j]], alphabet[j], state, O[t]) ]

\* the backpointer p of a state at row t is the first previous symbol, in
\* alphabet order, whose candidate is the maximum
BackpointerIsEarliest(t, state, p) ==
  /\ p \in Alphabet
  /\ EarliestMaximum(Candidates(t, state), Index(p))

\* C6: at every time step after the first and for every state the
\* backpointer is the earliest symbol, in alphabet order, among the previous
\* symbols that reach the maximum; the last symbol of the result is the
\* earliest symbol among those with the maximal final score.
C6_TiesGoToEarliest ==
  /\ pc = "recursion" =>
        \A t \in 2..Len(M) : \A state \in Alphabet :
          BackpointerIsEarliest(t, state, Backpointers[t][state])
  /\ (LastCallReturned /\ M # <<>>) =>
        EarliestMaximum([ j \in 1..Len(alphabet) |-> M[Len(M)][alphabet[j]] ],
                        Index(result[Len(result)]))

CorpusAcBc == SetToBag({ Entry(LineAc), Entry(LineBc) })

\* trained on "AC: a 1" and "bc:bcb", decoding "teh": at the second time
\* step the candidates of state c from a and from b tie for the maximum, and
\* the backpointer is a
C6_Witness ==
  /\ pc = "recursion"
  /\ learned = CorpusAcBc
  /\ O = WordTeh
  /\ Len(M) >= 2
  /\ Backpointers[2]["c"] = "a"
  /\ ~LogGreater(Candidates(2, "c")[1], Candidates(2, "c")[2])
  /\ ~LogGreater(Candidates(2, "c")[2], Candidates(2, "c")[1])
  /\ \A j \in 1..Len(alphabet) : ~LogGreater(Candidates(2, "c")[j], Candidates(2, "c")[2])

\* no hidden sequence that extends the given prefix scores higher than target
RECURSIVE NoBetterExtension(_, _, _, _, _, _)
NoBetterExtension(model, obs, i, last, product, target) ==
  IF i > Len(obs) THEN ~ScoreGreater(product, target)
  ELSE \A s \in Alphabet :
         NoBetterExtension(model, obs, i + 1, s,
           TimesFraction(TimesFraction(product, model.T[last][s]), model.E[s][obs[i]]),
           target)

\* no sequence of Len(obs) symbols of the alphabet scores higher than target
NoBetterPath(model, obs, target) ==
  \A s \in Alphabet :
    NoBetterExtension(model, obs, 2, s,
      TimesFraction(TimesFraction([ n |-> EmptyBag, d |-> EmptyBag ], model.start[s]),
                    model.E[s][obs[1]]),
      target)

\* C1: for a trained model and a word with a filtered observation sequence
\* O of length n >= 1, no sequence of n symbols has a higher score
\* start[s0]*E[s0][O0] * prod T[s(t-1)][s(t)]*E[s(t)][O(t)] than the string
\* viterbi returns.
C1_ResultIsHighestScoring ==
  (LastCallReturned /\ Len(O) >= 1) =>
    /\ Len(result) = Len(O)
    /\ NoBetterPath(hmm, O, PathScore(hmm, result, O))

\* viterbi has decoded three observations into something else than what
\* was observed, with a model that has learned transitions
C1_Witness ==
  /\ ViterbiReturned
  /\ Len(O) = 3
  /\ learned # EmptyBag
  /\ result # O

====
